---- MODULE Spec2Model ----
(***************************************************************************)
(* Credential and token lifecycle of the NotesVerb auth service            *)
(* (AuthService: register, login, refreshToken, logout, validateToken,     *)
(* getUserById, deleteUser) over the Prisma store (user, refreshToken).    *)
(*                                                                         *)
(* Every method is an async function.  Each store call is one atomic step  *)
(* of the database; the code between two awaits that reads the clock       *)
(* (jwt.sign, jwt.verify, new Date()) is a step of its own, so that other  *)
(* calls and clock ticks interleave exactly where the event loop allows.   *)
(* The clock counts whole seconds: jsonwebtoken stamps iat/exp in seconds. *)
(***************************************************************************)
EXTENDS Integers, FiniteSets, Sequences, TLC

\* ---------------------------------------------------------------- bounds
\* Spec: seconds the clock may advance, calls started, users ever created
MaxClock == 1
MaxCalls == 3
MaxUsers == 2
\* SpecRace: the same, wide enough for a token string to be stored, consumed
\* and stored again
RaceClock == 2
RaceCalls == 4
RaceUsers == 2
\* SpecUsers: two email addresses, so that two users exist side by side
PairClock == 1
PairCalls == 3
PairUsers == 2
\* SpecExpiry: a clock that runs past the stored expiry of a record
ExpiryClock == 4
ExpiryCalls == 2
ExpiryUsers == 1
\* SpecLong: one user and five calls, enough for a string to be issued,
\* revoked, issued again and revoked again while a call is in flight
LongClock == 1
LongCalls == 5
LongUsers == 1

Procs == {"c1", "c2"}
Emails == {"a@x.com"}
TwoEmails == {"a@x.com", "b@x.com"}
Passwords == {"pw1", "pw2"}
Secrets == {"k1", "k2"}

\* ------------------------------------------------- program configuration
\* process.env.JWT_EXPIRES_IN, in clock seconds
jwtExpiresIn == 1
\* process.env.JWT_REFRESH_EXPIRES_IN: the default "7d", and a configured
\* value that outlasts the stored window
RefreshTtl == 3
LongRefreshTtl == 5
\* expiresAt.setDate(expiresAt.getDate() + 7), scaled to clock seconds
StoredWindow == 3
bcryptRounds == 10

VARIABLES
  jwtSecret,         \* this.jwtSecret
  jwtRefreshSecret,  \* this.jwtRefreshSecret
  jwtRefreshExpiresIn, \* this.jwtRefreshExpiresIn
  now,               \* wall clock, seconds
  users,             \* table user
  refreshTokens,     \* table refreshToken
  nextUserId,        \* id generator of table user
  nextTokenId,       \* id generator of table refreshToken
  proc,              \* the calls in flight, one per client
  calls,             \* number of calls started
  limit,             \* the bounds of the run: [clock, calls, users] and the
                     \* emails, passwords and configuration it draws from
  known,             \* token strings returned to callers so far
  hist               \* observations: tokens consumed by a refresh, tokens revoked
                     \* by logout or user deletion, users deleted,
                     \* the user a register has just returned for, the pair the
                     \* latest call has just returned, the latest caller

vars == <<jwtSecret, jwtRefreshSecret, jwtRefreshExpiresIn, now, users, refreshTokens,
          nextUserId, nextTokenId, proc, calls, limit, known, hist>>

\* ------------------------------------------------------------ data types
NoToken == [key |-> "", userId |-> 0, email |-> "", iat |-> 0, exp |-> 0]
Garbage == [key |-> "garbage", userId |-> 0, email |-> "", iat |-> 0, exp |-> 0]
NoUser == [id |-> 0, email |-> "", password |-> <<>>]
NoRecord == [id |-> 0, userId |-> 0, token |-> NoToken, expiresAt |-> 0]
\* no call has just returned a pair
NoIssue == [op |-> "", token |-> NoToken]

\* jwt.sign(payload, secret, {expiresIn}): HS256 over {userId, email, iat, exp};
\* the string is a function of the payload, the second and the secret.
jwtSign(userId, email, secret, ttl, t) ==
  [key |-> secret, userId |-> userId, email |-> email, iat |-> t, exp |-> t + ttl]

\* jwt.verify(token, secret): the error it throws, "" when it returns the
\* payload.  The signature is checked first, then the expiry (exp <= now).
jwtVerify(token, secret, t) ==
  IF token.key # secret THEN "JsonWebTokenError"
  ELSE IF t >= token.exp THEN "TokenExpiredError"
  ELSE ""

\* the decoded JWTPayload
Payload(token) ==
  [userId |-> token.userId, email |-> token.email, iat |-> token.iat, exp |-> token.exp]

NoPayload == Payload(NoToken)

\* bcrypt.hash / bcrypt.compare: the hash records the cost and determines the
\* password it was made from; compare re-hashes with the cost of the hash.
\* (The random salt is left out: no call reads it.)
bcryptHash(password, rounds) == <<"$2a$", rounds, password>>
bcryptCompare(password, hash) == hash = bcryptHash(password, hash[2])

\* ---------------------------------------------------------------- results
NoResult ==
  [kind |-> "none", statusCode |-> 0, message |-> "", code |-> "",
   accessToken |-> NoToken, refreshToken |-> NoToken, payload |-> NoPayload, user |-> 0]

\* new ServiceError(message, statusCode, code); code is "" when not given
ServiceError(message, statusCode, code) ==
  [NoResult EXCEPT !.kind = "ServiceError", !.statusCode = statusCode,
                   !.message = message, !.code = code]

createServiceError(message, statusCode, code) == ServiceError(message, statusCode, code)
createServiceResponse(message, statusCode, code) == ServiceError(message, statusCode, code)

\* an error thrown by the Prisma client (PrismaClientKnownRequestError)
PrismaError(code) == [NoResult EXCEPT !.kind = "PrismaError", !.code = code]

AuthTokens(at, rt) == [NoResult EXCEPT !.kind = "tokens", !.accessToken = at, !.refreshToken = rt]
VoidResult == [NoResult EXCEPT !.kind = "void"]
PayloadResult(pl) == [NoResult EXCEPT !.kind = "payload", !.payload = pl]
UserResult(id) == [NoResult EXCEPT !.kind = "user", !.user = id]

\* ------------------------------------------------------------- the store
userByEmail(email) ==
  IF \E u \in users : u.email = email
  THEN CHOOSE u \in users : u.email = email ELSE NoUser

userById(id) ==
  IF \E u \in users : u.id = id
  THEN CHOOSE u \in users : u.id = id ELSE NoUser

\* mutant: a lookup whose where clause does not select by the token string
tokenByString_Any(tok) ==
  IF refreshTokens = {} THEN NoRecord ELSE CHOOSE r \in refreshTokens : TRUE

\* prisma.refreshToken.findUnique({where: {token}})
tokenByString(tok) ==
  IF \E r \in refreshTokens : r.token = tok
  THEN CHOOSE r \in refreshTokens : r.token = tok ELSE NoRecord

\* prisma.user.delete: the row and, by the relation's cascade, its tokens
userDeleteCascade(id) ==
  [u |-> {u \in users : u.id # id},
   r |-> {r \in refreshTokens : r.userId # id}]

\* ------------------------------------------------------------- processes
\* A call in flight: its position (pc), its arguments and its local variables.
\* peers holds the clients whose calls this one overlapped with, crowd whether
\* it overlapped with more than one call; late, follows, after, chained, live
\* and dead record what preceded it and what it found when it started, minted
\* the id of the record it inserted.
Idle ==
  [pc |-> "idle", op |-> "", email |-> "", password |-> "", token |-> NoToken,
   userId |-> 0, stored |-> NoRecord, accessToken |-> NoToken,
   refreshToken |-> NoToken, expiresAt |-> 0, result |-> NoResult,
   why |-> "", late |-> FALSE, follows |-> 0, peers |-> {}, crowd |-> FALSE,
   after |-> "", chained |-> FALSE, live |-> FALSE, dead |-> FALSE, minted |-> 0]

InFlight(q) == proc[q].pc \notin {"idle", "done"}

\* The constructor (lines 128-138) takes both secrets from the environment and
\* rejects only a missing one: the refresh secret may equal the access secret.
Setup(bounds) ==
  /\ limit = bounds
  /\ jwtSecret = "k1"
  /\ jwtRefreshSecret \in bounds.secrets
  /\ jwtRefreshExpiresIn = bounds.refreshTtl
  /\ now = 0
  /\ users = {}
  /\ refreshTokens = {}
  /\ nextUserId = 1
  /\ nextTokenId = 1
  /\ proc = [p \in Procs |-> Idle]
  /\ calls = 0
  /\ known = {Garbage}
  /\ hist = [consumed |-> {}, revoked |-> {}, deleted |-> {}, registered |-> NoUser,
             issued |-> NoIssue, caller |-> ""]

Init == Setup([clock |-> MaxClock, calls |-> MaxCalls, users |-> MaxUsers,
               emails |-> Emails, passwords |-> Passwords, secrets |-> Secrets,
               refreshTtl |-> RefreshTtl])

InitRace == Setup([clock |-> RaceClock, calls |-> RaceCalls, users |-> RaceUsers,
                   emails |-> Emails, passwords |-> Passwords, secrets |-> Secrets,
                   refreshTtl |-> RefreshTtl])

InitUsers == Setup([clock |-> PairClock, calls |-> PairCalls, users |-> PairUsers,
                    emails |-> TwoEmails, passwords |-> {"pw1"}, secrets |-> {"k2"},
                    refreshTtl |-> RefreshTtl])

InitLong == Setup([clock |-> LongClock, calls |-> LongCalls, users |-> LongUsers,
                   emails |-> Emails, passwords |-> {"pw1"}, secrets |-> {"k2"},
                   refreshTtl |-> RefreshTtl])

InitExpiry == Setup([clock |-> ExpiryClock, calls |-> ExpiryCalls, users |-> ExpiryUsers,
                     emails |-> Emails, passwords |-> {"pw1"}, secrets |-> {"k2"},
                     refreshTtl |-> LongRefreshTtl])

cfg == <<jwtSecret, jwtRefreshSecret, jwtRefreshExpiresIn, limit>>
store == <<users, refreshTokens, nextUserId, nextTokenId>>

CanCall(p) == ~InFlight(p) /\ calls < limit.calls
\* no call but p's is in flight
Quiet(p) == \A q \in Procs \ {p} : ~InFlight(q)

\* p starts a call with local state c: the calls in flight become its peers and
\* it becomes theirs; a call that follows a register is no longer "immediately
\* after" it once another call has started.
Start(p, c) ==
  LET busy == {r \in Procs \ {p} : InFlight(r)}
  IN
  [q \in Procs |->
     IF q = p
     THEN [c EXCEPT !.peers = busy, !.crowd = Cardinality(busy) > 1]
     ELSE IF InFlight(q)
          THEN [proc[q] EXCEPT !.peers = @ \cup {p}, !.crowd = proc[q].peers # {},
                               !.follows = 0]
          ELSE [proc[q] EXCEPT !.peers = @ \ {p}]]

Finish(c, res, why) == [c EXCEPT !.pc = "done", !.result = res, !.why = why]

Tick ==
  /\ now < limit.clock
  /\ now' = now + 1
  /\ UNCHANGED <<cfg, store, proc, calls, known, hist>>

\* ------------------------------------------------------- generateTokens
\* lines 144-166: both tokens and the stored expiry, from the clock at t
signTokens(c, uid, email, t) ==
  [c EXCEPT !.pc = "gen_create",
            !.userId = uid,
            !.email = email,
            !.accessToken = jwtSign(uid, email, jwtSecret, jwtExpiresIn, t),
            !.refreshToken = jwtSign(uid, email, jwtRefreshSecret, jwtRefreshExpiresIn, t),
            !.expiresAt = t + StoredWindow]

\* register and login reach generateTokens after an await (bcrypt, user.create)
Sign(p) ==
  /\ proc[p].pc = "gen_sign"
  /\ proc' = [proc EXCEPT ![p] = signTokens(proc[p], proc[p].userId, proc[p].email, now)]
  /\ UNCHANGED <<cfg, now, store, calls, known, hist>>

\* mutant: a token column without its unique constraint
tokenCreateError_NoUnique(c) ==
  IF userById(c.userId) = NoUser THEN "P2003" ELSE ""

\* prisma.refreshToken.create: token is unique, userId references user
tokenCreateError(c) ==
  IF \E r \in refreshTokens : r.token = c.refreshToken THEN "P2002"
  ELSE IF userById(c.userId) = NoUser THEN "P2003"
  ELSE ""

\* mutant: refreshToken without its catch block
createFailure_Raw(c, code) == Finish(c, PrismaError(code), "create_failed")

\* lines 245-250: a ServiceError is rethrown, any other error becomes a 401
\* whose code is the error caught
refreshCaught(error) == createServiceError("Invalid refresh token", 401, error)

\* what the caller of generateTokens does with a store error
createFailure(c, code) ==
  IF c.op = "refresh"
  THEN Finish(c, refreshCaught(code), "create_failed")
  ELSE Finish(c, PrismaError(code), "create_failed")

\* lines 168-174: the insert adds the row and touches no other
tokenInsert(rows, rec) == rows \cup {rec}

TokenCreate(p) ==
  LET c == proc[p]
      code == tokenCreateError(c)
  IN
  /\ c.pc = "gen_create"
  /\ IF code # ""
     THEN /\ proc' = [proc EXCEPT ![p] = createFailure(c, code)]
          /\ UNCHANGED <<store, known, hist>>
     ELSE /\ refreshTokens' = tokenInsert(refreshTokens,
               [id |-> nextTokenId, userId |-> c.userId,
                token |-> c.refreshToken, expiresAt |-> c.expiresAt])
          /\ nextTokenId' = nextTokenId + 1
          /\ UNCHANGED <<users, nextUserId>>
          /\ IF c.op = "refresh"
             THEN /\ proc' = [proc EXCEPT ![p].pc = "rf_delete", ![p].minted = nextTokenId]
                  /\ UNCHANGED <<known, hist>>
             ELSE /\ proc' = [proc EXCEPT ![p] =
                        Finish([c EXCEPT !.minted = nextTokenId],
                               AuthTokens(c.accessToken, c.refreshToken), "")]
                  /\ known' = known \cup {c.accessToken, c.refreshToken}
                  /\ hist' = [hist EXCEPT
                        !.registered =
                          IF c.op = "register" /\ Quiet(p)
                          THEN [id |-> c.userId, email |-> c.email, password |-> c.password]
                          ELSE NoUser,
                        !.issued =
                          IF Quiet(p) THEN [op |-> c.op, token |-> c.refreshToken]
                          ELSE NoIssue]
  /\ UNCHANGED <<cfg, now, calls>>

\* ---------------------------------------------------------------- register
\* mutant: the existence check left out
registerConflict_Never(existing) == FALSE

\* line 185: if (existingUser)
registerConflict(existing) == existing # NoUser

\* lines 183-187: the existence check
RegisterFind(p, email, password) ==
  LET c == [Idle EXCEPT !.op = "register", !.email = email, !.password = password]
  IN
  /\ CanCall(p)
  /\ calls' = calls + 1
  /\ hist' = [hist EXCEPT !.registered = NoUser, !.issued = NoIssue, !.caller = p]
  /\ IF registerConflict(userByEmail(email))
     THEN proc' = Start(p, Finish([c EXCEPT !.userId = userByEmail(email).id],
                                  createServiceResponse("User already exists", 409, ""), "exists"))
     ELSE proc' = Start(p, [c EXCEPT !.pc = "reg_create"])
  /\ UNCHANGED <<cfg, now, store, known>>

\* mutant: an insert that does not enforce the unique email
userCreateError_NoConstraint(email) == ""

\* prisma.user.create: email is unique
userCreateError(email) ==
  IF \E u \in users : u.email = email THEN "P2002" ELSE ""

\* lines 189-198: hash, insert, then generateTokens(user.id, user.email)
RegisterCreate(p) ==
  LET c == proc[p]
      code == userCreateError(c.email)
  IN
  /\ c.pc = "reg_create"
  /\ IF code # ""
     THEN /\ proc' = [proc EXCEPT ![p] = Finish(c, PrismaError(code), "create_failed")]
          /\ UNCHANGED store
     ELSE /\ nextUserId <= limit.users
          /\ users' = users \cup
               {[id |-> nextUserId, email |-> c.email,
                 password |-> bcryptHash(c.password, bcryptRounds)]}
          /\ nextUserId' = nextUserId + 1
          /\ proc' = [proc EXCEPT ![p].pc = "gen_sign", ![p].userId = nextUserId]
          /\ UNCHANGED <<refreshTokens, nextTokenId>>
  /\ UNCHANGED <<cfg, now, calls, known, hist>>

\* ------------------------------------------------------------------- login
\* mutant: an unknown email reported as such
loginNoUser_NotFound == createServiceResponse("User not found", 404, "")

\* line 207
loginNoUser == createServiceResponse("Invalid email or password", 401, "")
\* line 212
loginBadPassword == createServiceResponse("Invalid email or password", 401, "")

\* lines 202-215: lookup, bcrypt.compare, then generateTokens(user.id, user.email)
LoginFind(p, email, password) ==
  LET c == [Idle EXCEPT !.op = "login", !.email = email, !.password = password]
      user == userByEmail(email)
      imm == /\ hist.registered # NoUser
             /\ hist.registered.email = email
             /\ hist.registered.password = password
             /\ \A q \in Procs \ {p} : ~InFlight(q)
  IN
  /\ CanCall(p)
  /\ calls' = calls + 1
  /\ hist' = [hist EXCEPT !.registered = NoUser, !.issued = NoIssue, !.caller = p]
  /\ IF user = NoUser
     THEN proc' = Start(p, Finish(c, loginNoUser, "no_user"))
     ELSE IF ~bcryptCompare(password, user.password)
     THEN proc' = Start(p, Finish(c, loginBadPassword, "bad_password"))
     ELSE proc' = Start(p, [c EXCEPT !.pc = "gen_sign", !.userId = user.id,
                                     !.email = user.email,
                                     !.follows = IF imm THEN hist.registered.id ELSE 0])
  /\ UNCHANGED <<cfg, now, store, known>>

\* ----------------------------------------------------------------- refresh
\* mutant: refresh tokens verified with the access secret
verifyRefresh_AccessSecret(token, t) == jwtVerify(token, jwtSecret, t)


\* lines 220-223: jwt.verify(refreshToken, this.jwtRefreshSecret)
verifyRefresh(token, t) == jwtVerify(token, jwtRefreshSecret, t)

\* mutant: the stored expiry left unchecked
storedRejected_IgnoresExpiry(stored, t) == stored = NoRecord

\* line 231: !storedToken || storedToken.expiresAt < new Date()
storedRejected(stored, t) == stored = NoRecord \/ stored.expiresAt < t

\* line 232
invalidRefresh == createServiceError("Invalid refresh token", 401, "")

RefreshCall(p, token) ==
  LET c == [Idle EXCEPT !.op = "refresh", !.token = token,
                        !.late = token \in hist.consumed,
                        !.dead = \/ token \in hist.consumed \cup hist.revoked
                                 \/ /\ tokenByString(token) # NoRecord
                                    /\ tokenByString(token).expiresAt < now,
                        !.after = IF Quiet(p) THEN hist.issued.op ELSE "",
                        !.chained = token = hist.issued.token,
                        !.live = /\ verifyRefresh(token, now) = ""
                                 /\ ~storedRejected(tokenByString(token), now)]
  IN
  /\ CanCall(p)
  /\ calls' = calls + 1
  /\ hist' = [hist EXCEPT !.registered = NoUser, !.issued = NoIssue, !.caller = p]
  /\ IF verifyRefresh(token, now) = ""
     THEN proc' = Start(p, [c EXCEPT !.pc = "rf_find"])
     ELSE proc' = Start(p, Finish(c, refreshCaught(verifyRefresh(token, now)), "verify_failed"))
  /\ UNCHANGED <<cfg, now, store, known>>

\* lines 224-229: findUnique({where: {token}, include: {user: true}})
RefreshFind(p) ==
  LET c == proc[p]
      stored == tokenByString(c.token)
  IN
  /\ c.pc = "rf_find"
  /\ proc' = [proc EXCEPT ![p].pc = "rf_check", ![p].stored = stored,
                          ![p].email = userById(stored.userId).email]
  /\ UNCHANGED <<cfg, now, store, calls, known, hist>>

\* lines 231-238: the check, then generateTokens up to its await
RefreshCheck(p) ==
  LET c == proc[p]
  IN
  /\ c.pc = "rf_check"
  /\ IF storedRejected(c.stored, now)
     THEN proc' = [proc EXCEPT ![p] = Finish(c, invalidRefresh, "not_stored")]
     ELSE proc' = [proc EXCEPT ![p] = signTokens(c, c.stored.userId, c.email, now)]
  /\ UNCHANGED <<cfg, now, store, calls, known, hist>>

\* mutant: deleteMany in place of delete, which does not throw on a missing row
deleteById_IfExists(id) ==
  [error |-> "", rows |-> {r \in refreshTokens : r.id # id}]

\* prisma.refreshToken.delete({where: {id}}): throws when no row has the id
deleteById(id) ==
  IF \E r \in refreshTokens : r.id = id
  THEN [error |-> "", rows |-> {r \in refreshTokens : r.id # id}]
  ELSE [error |-> "P2025", rows |-> refreshTokens]

\* lines 240-250: delete the consumed record, return the pair; any error is a 401
RefreshDelete(p) ==
  LET c == proc[p]
      d == deleteById(c.stored.id)
  IN
  /\ c.pc = "rf_delete"
  /\ refreshTokens' = d.rows
  /\ IF d.error # ""
     THEN /\ proc' = [proc EXCEPT ![p] = Finish(c, refreshCaught(d.error), "delete_failed")]
          /\ UNCHANGED <<known, hist>>
     ELSE /\ proc' = [proc EXCEPT ![p] =
                Finish(c, AuthTokens(c.accessToken, c.refreshToken), "")]
          /\ known' = known \cup {c.accessToken, c.refreshToken}
          /\ hist' = [hist EXCEPT
                !.consumed = @ \cup {c.token},
                !.issued = IF Quiet(p) THEN [op |-> c.op, token |-> c.refreshToken]
                           ELSE NoIssue]
  /\ UNCHANGED <<cfg, now, users, nextUserId, nextTokenId, calls>>

\* ------------------------------------------------------------------ logout
\* mutant: logout that ends every session of the token's user
logoutDeleteMany_OfUser(rows, token) == {r \in rows : r.userId # token.userId}

\* prisma.refreshToken.deleteMany({where: {token}})
logoutDeleteMany(rows, token) == {r \in rows : r.token # token}

\* lines 253-257
Logout(p, token) ==
  LET c == [Idle EXCEPT !.op = "logout", !.token = token]
  IN
  /\ CanCall(p)
  /\ calls' = calls + 1
  /\ hist' = [hist EXCEPT !.registered = NoUser, !.issued = NoIssue, !.caller = p,
                           !.revoked = @ \cup {r.token : r \in {x \in refreshTokens : x.token = token}}]
  /\ refreshTokens' = logoutDeleteMany(refreshTokens, token)
  /\ proc' = Start(p, Finish(c, VoidResult, ""))
  /\ UNCHANGED <<cfg, now, users, nextUserId, nextTokenId, known>>

\* ----------------------------------------------------------- validateToken
\* line 261: jwt.verify(token, this.jwtSecret)
verifyAccess(token, t) == jwtVerify(token, jwtSecret, t)

\* lines 271-276
validateCaught(error) == createServiceError("Invalid token", 401, error)

ValidateCall(p, token) ==
  LET c == [Idle EXCEPT !.op = "validate", !.token = token]
  IN
  /\ CanCall(p)
  /\ calls' = calls + 1
  /\ hist' = [hist EXCEPT !.registered = NoUser, !.issued = NoIssue, !.caller = p]
  /\ IF verifyAccess(token, now) = ""
     THEN proc' = Start(p, [c EXCEPT !.pc = "vt_find"])
     ELSE proc' = Start(p, Finish(c, validateCaught(verifyAccess(token, now)), "verify_failed"))
  /\ UNCHANGED <<cfg, now, store, known>>

\* mutant: validateToken that also asks for a live session of the user
validateResult_NeedsSession(token) ==
  IF userById(token.userId) = NoUser
  THEN createServiceError("User not found", 404, "")
  ELSE IF \E r \in refreshTokens : r.userId = token.userId
  THEN PayloadResult(Payload(token))
  ELSE createServiceError("Invalid token", 401, "")

\* lines 262-270: the user the payload names must exist
validateResult(token) ==
  IF userById(token.userId) = NoUser
  THEN createServiceError("User not found", 404, "")
  ELSE PayloadResult(Payload(token))

ValidateFind(p) ==
  LET c == proc[p]
  IN
  /\ c.pc = "vt_find"
  /\ proc' = [proc EXCEPT ![p] = Finish(c, validateResult(c.token), "")]
  /\ UNCHANGED <<cfg, now, store, calls, known, hist>>

\* ------------------------------------------------------------- getUserById
\* lines 279-295
GetUserById(p, id) ==
  LET c == [Idle EXCEPT !.op = "getUserById", !.userId = id]
  IN
  /\ CanCall(p)
  /\ calls' = calls + 1
  /\ hist' = [hist EXCEPT !.registered = NoUser, !.issued = NoIssue, !.caller = p]
  /\ IF userById(id) = NoUser
     THEN proc' = Start(p, Finish(c, createServiceError("User not found", 404, ""), "no_user"))
     ELSE proc' = Start(p, Finish(c, UserResult(id), ""))
  /\ UNCHANGED <<cfg, now, store, known>>

\* -------------------------------------------------------------- deleteUser
\* lines 297-301: prisma.user.delete throws when no row has the id
DeleteUser(p, id) ==
  LET c == [Idle EXCEPT !.op = "deleteUser", !.userId = id]
      d == userDeleteCascade(id)
  IN
  /\ CanCall(p)
  /\ calls' = calls + 1
  /\ IF userById(id) = NoUser
     THEN /\ proc' = Start(p, Finish(c, PrismaError("P2025"), "no_user"))
          /\ hist' = [hist EXCEPT !.registered = NoUser, !.issued = NoIssue, !.caller = p]
          /\ UNCHANGED <<users, refreshTokens>>
     ELSE /\ users' = d.u
          /\ refreshTokens' = d.r
          /\ proc' = Start(p, Finish(c, VoidResult, ""))
          /\ hist' = [hist EXCEPT !.registered = NoUser, !.issued = NoIssue, !.caller = p,
                                   !.deleted = @ \cup {id},
                                   !.revoked = @ \cup {r.token : r \in {x \in refreshTokens : x.userId = id}}]
  /\ UNCHANGED <<cfg, now, nextUserId, nextTokenId, known>>

\* ---------------------------------------------------------- specification
Next ==
  \/ Tick
  \/ \E p \in Procs :
       \/ \E e \in limit.emails, w \in limit.passwords : RegisterFind(p, e, w)
       \/ \E e \in limit.emails, w \in Passwords : LoginFind(p, e, w)
       \/ \E t \in known : RefreshCall(p, t) \/ Logout(p, t) \/ ValidateCall(p, t)
       \/ \E id \in 1..limit.users : GetUserById(p, id) \/ DeleteUser(p, id)
       \/ RegisterCreate(p)
       \/ Sign(p)
       \/ TokenCreate(p)
       \/ RefreshFind(p)
       \/ RefreshCheck(p)
       \/ RefreshDelete(p)
       \/ ValidateFind(p)

Spec == Init /\ [][Next]_vars

SpecRace == InitRace /\ [][Next]_vars

SpecUsers == InitUsers /\ [][Next]_vars

SpecExpiry == InitExpiry /\ [][Next]_vars

SpecLong == InitLong /\ [][Next]_vars

\* ------------------------------------------------------------------ claims
Completed(p, op) == proc[p].pc = "done" /\ proc[p].op = op
\* the calls of p and q overlapped with each other and with no other call
Paired(p, q) ==
  /\ p # q
  /\ proc[p].peers = {q} /\ ~proc[p].crowd
  /\ proc[q].peers = {p} /\ ~proc[q].crowd
Succeeded(p) == proc[p].result.kind \in {"tokens", "void", "payload", "user"}
\* res is a ServiceError with this status and message
Fails(res, statusCode, message) ==
  res.kind = "ServiceError" /\ res.statusCode = statusCode /\ res.message = message
Unauthenticated(res) == res.kind = "ServiceError" /\ res.statusCode = 401

\* this step is client p starting a call of op
Started(p, op) == calls' = calls + 1 /\ hist'.caller = p /\ proc'[p].op = op
\* this step is the one in which p's call of op returns
Returns(p, op) ==
  /\ proc'[p].op = op
  /\ proc'[p].pc = "done"
  /\ (proc[p].op = op /\ InFlight(p)) \/ Started(p, op)
TablesUnchanged == users' = users /\ refreshTokens' = refreshTokens

\* C1: once refresh(RT) has returned a token pair, every refresh(RT) call that
\* starts afterwards fails with Unauthenticated (401).
C1_SingleUseRotation ==
  \A p \in Procs :
    (Completed(p, "refresh") /\ proc[p].late) => Unauthenticated(proc[p].result)


\* C2: of two refresh calls that present the same refresh token and overlap with
\* each other (and with no other call), at most one returns a token pair; a call that fails fails with 401.
C2_ConcurrentRefresh ==
  \A p, q \in Procs :
    ( /\ Paired(p, q)
      /\ Completed(p, "refresh") /\ Completed(q, "refresh")
      /\ proc[p].token = proc[q].token ) =>
      /\ ~(proc[p].result.kind = "tokens" /\ proc[q].result.kind = "tokens")
      /\ proc[p].result.kind # "tokens" => Unauthenticated(proc[p].result)

\* both calls found the record and minted a pair; the loser failed at the delete
C2_Witness ==
  \E p, q \in Procs :
    /\ Paired(p, q)
    /\ Completed(p, "refresh") /\ Completed(q, "refresh")
    /\ proc[p].token = proc[q].token
    /\ proc[p].result.kind = "tokens"
    /\ proc[q].why = "delete_failed"

\* C3: a login that immediately follows a successful register with the same
\* credentials (no other call in between or in flight) returns a token pair
\* carrying the id of the registered user.
C3_RegisterThenLogin ==
  \A p \in Procs :
    (Completed(p, "login") /\ proc[p].follows # 0) =>
      /\ proc[p].result.kind = "tokens"
      /\ proc[p].result.accessToken.userId = proc[p].follows
      /\ proc[p].result.refreshToken.userId = proc[p].follows

\* C4: register with an email that already has a user fails with Conflict (409)
\* in its first step, for any password, and changes neither table.
C4_RegisterConflict ==
  [][\A p \in Procs :
       (Started(p, "register") /\ \E u \in users : u.email = proc'[p].email) =>
         /\ proc'[p].pc = "done"
         /\ Fails(proc'[p].result, 409, "User already exists")
         /\ TablesUnchanged]_vars

C4_Witness ==
  \E p \in Procs :
    /\ Completed(p, "register")
    /\ proc[p].result.statusCode = 409
    /\ \E u \in users : u.email = proc[p].email /\ ~bcryptCompare(proc[p].password, u.password)

\* C5: of two register calls with the same email that overlap with each other
\* and with no other call exactly one
\* returns a token pair, and exactly one user with that email exists.
C5_RegistrationRace ==
  \A p, q \in Procs :
    ( /\ Paired(p, q)
      /\ Completed(p, "register") /\ Completed(q, "register")
      /\ proc[p].email = proc[q].email ) =>
      /\ (proc[p].result.kind = "tokens") # (proc[q].result.kind = "tokens")
      /\ Cardinality({u \in users : u.email = proc[p].email}) = 1

\* both calls passed the existence check; the second insert hit the constraint
C5_Witness ==
  \E p, q \in Procs :
    /\ Paired(p, q)
    /\ Completed(p, "register") /\ Completed(q, "register")
    /\ proc[p].email = proc[q].email
    /\ proc[p].result.kind = "tokens"
    /\ proc[q].result = PrismaError("P2002")

\* C6: login with an email that has no user, and login with a password that
\* does not verify against the stored hash, both fail in the same way:
\* status 401, message "Invalid email or password", tables unchanged.
C6_LoginFailuresAlike ==
  [][\A p \in Procs :
       ( /\ Started(p, "login")
         /\ \A u \in users :
              u.email = proc'[p].email => ~bcryptCompare(proc'[p].password, u.password) ) =>
         /\ proc'[p].pc = "done"
         /\ Fails(proc'[p].result, 401, "Invalid email or password")
         /\ TablesUnchanged]_vars

C6_Witness ==
  \E p, q \in Procs :
    /\ Completed(p, "login") /\ proc[p].why = "no_user"
    /\ Completed(q, "login") /\ proc[q].why = "bad_password"
    /\ proc[p].result = proc[q].result

\* C7: logout never fails; it leaves no record with the token string, removes
\* nothing else, changes nothing when no such record exists, and a second
\* logout of the same token would change nothing.
C7_LogoutIdempotent ==
  [][\A p \in Procs :
       Started(p, "logout") =>
         /\ proc'[p].pc = "done"
         /\ proc'[p].result = VoidResult
         /\ users' = users
         /\ refreshTokens' = {r \in refreshTokens : r.token # proc'[p].token}
         /\ (~\E r \in refreshTokens : r.token = proc'[p].token) => refreshTokens' = refreshTokens
         /\ logoutDeleteMany(refreshTokens', proc'[p].token) = refreshTokens']_vars

\* the same stored refresh token logged out twice
C7_Witness ==
  \E p, q \in Procs :
    /\ p # q
    /\ Completed(p, "logout") /\ Completed(q, "logout")
    /\ proc[p].token = proc[q].token
    /\ proc[p].token.key = jwtRefreshSecret
    /\ proc[p].token.exp - proc[p].token.iat = jwtRefreshExpiresIn
    /\ refreshTokens = {}
    /\ users # {}

\* C8: once deleteUser(id) has completed, no refresh-token record owned by id
\* is in the store, and every refresh call that returns afterwards for a token
\* of that user (also one that was in flight during the deletion) fails with 401.
C8_DeleteCascades ==
  /\ [](\A r \in refreshTokens : r.userId \notin hist.deleted)
  /\ [][\A p \in Procs :
          (Returns(p, "refresh") /\ proc'[p].token.userId \in hist.deleted) =>
            Unauthenticated(proc'[p].result)]_vars

\* a refresh that had found its record when the user was deleted
C8_Witness ==
  \E p \in Procs :
    /\ Completed(p, "refresh")
    /\ proc[p].stored # NoRecord
    /\ proc[p].stored.userId \in hist.deleted
    /\ Unauthenticated(proc[p].result)
    /\ proc[p].why = "create_failed"
    /\ refreshTokens = {}

\* C9: validateToken fails with 401 when the token does not verify against the
\* access secret or has expired; otherwise it returns the decoded payload when
\* the user of the payload exists and fails with 404 when it does not.  The
\* refresh-token table plays no part and no table changes.
C9_ValidateOutcome ==
  [][\A p \in Procs :
       /\ Started(p, "validate") =>
            /\ TablesUnchanged
            /\ IF proc'[p].token.key = jwtSecret /\ now < proc'[p].token.exp
               THEN proc'[p].pc = "vt_find"
               ELSE proc'[p].pc = "done" /\ Fails(proc'[p].result, 401, "Invalid token")
       /\ (proc[p].pc = "vt_find" /\ proc'[p].pc # "vt_find") =>
            /\ TablesUnchanged
            /\ proc'[p].pc = "done"
            /\ IF \E u \in users : u.id = proc[p].token.userId
               THEN proc'[p].result = PayloadResult(Payload(proc[p].token))
               ELSE Fails(proc'[p].result, 404, "User not found")]_vars

\* an access token accepted after its session was logged out
C9_Witness ==
  \E p \in Procs :
    /\ Completed(p, "validate")
    /\ proc[p].result.kind = "payload"
    /\ proc[p].result.payload.userId = proc[p].token.userId
    /\ ~\E r \in refreshTokens : r.userId = proc[p].token.userId
    /\ \E q \in Procs : Completed(q, "logout") /\ proc[q].token.userId = proc[p].token.userId

\* C10 as stated: a token signed with the access secret is never accepted by
\* refresh and a token signed with the refresh secret is never accepted by
\* validateToken; both calls fail with 401 and change no table.
C10_SecretSeparation_Original ==
  [][\A p \in Procs :
       /\ (Started(p, "refresh") /\ proc'[p].token.key = jwtSecret) =>
            /\ proc'[p].pc = "done"
            /\ Fails(proc'[p].result, 401, "Invalid refresh token")
            /\ TablesUnchanged
       /\ (Started(p, "validate") /\ proc'[p].token.key = jwtRefreshSecret) =>
            /\ proc'[p].pc = "done"
            /\ Fails(proc'[p].result, 401, "Invalid token")
            /\ TablesUnchanged]_vars

\* C10, amended: the same, when the configured access and refresh secrets differ.
C10_SecretSeparation ==
  [][\A p \in Procs :
       jwtSecret # jwtRefreshSecret =>
         /\ (Started(p, "refresh") /\ proc'[p].token.key = jwtSecret) =>
              /\ proc'[p].pc = "done"
              /\ Fails(proc'[p].result, 401, "Invalid refresh token")
              /\ TablesUnchanged
         /\ (Started(p, "validate") /\ proc'[p].token.key = jwtRefreshSecret) =>
              /\ proc'[p].pc = "done"
              /\ Fails(proc'[p].result, 401, "Invalid token")
              /\ TablesUnchanged]_vars

\* an unexpired access token given to refresh, an unexpired refresh token to validateToken
C10_Witness ==
  \E p, q \in Procs :
    /\ jwtSecret # jwtRefreshSecret
    /\ Completed(p, "refresh") /\ proc[p].token.key = jwtSecret
    /\ Completed(q, "validate") /\ proc[q].token.key = jwtRefreshSecret
    /\ now < proc[p].token.exp /\ now < proc[q].token.exp
    /\ proc[p].result.statusCode = 401 /\ proc[q].result.statusCode = 401

\* C11: every call that fails returns a ServiceError that is Conflict (409),
\* Unauthenticated (401) or NotFound (404); no error of the store, the hasher
\* or the signer reaches the caller as it was thrown.
C11_ErrorsNormalized ==
  \A p \in Procs :
    (proc[p].pc = "done" /\ ~Succeeded(p)) =>
      /\ proc[p].result.kind = "ServiceError"
      /\ proc[p].result.statusCode \in {409, 401, 404}

\* null, the other value of getUserById's return type User | null
Absent == UserResult(0)

\* C12: getUserById returns in its first step and changes no table; it returns
\* the user when the id resolves to one and null, without an error, when not.
C12_GetUserPassthrough ==
  [][\A p \in Procs :
       Started(p, "getUserById") =>
         /\ proc'[p].pc = "done"
         /\ TablesUnchanged
         /\ IF \E u \in users : u.id = proc'[p].userId
            THEN proc'[p].result = UserResult(proc'[p].userId)
            ELSE proc'[p].result = Absent]_vars

\* this step is a step of p's call of op
StepOf(p, op) ==
  \/ Started(p, op)
  \/ proc[p].op = op /\ InFlight(p) /\ proc'[p].pc # proc[p].pc

\* C13: the step in which login returns a token pair adds exactly one
\* refresh-token record, the one of the returned refresh token, and keeps every
\* user and every record stored before; every other step of a login, and so
\* every failed login, changes neither table.  Hence a refresh that follows a
\* successful login and presents an earlier token, stored and unexpired when
\* it starts, with no other call in flight, returns a token pair.
C13_LoginKeepsSessions ==
  /\ [][\A p \in Procs :
          StepOf(p, "login") =>
            IF proc'[p].pc = "done" /\ proc'[p].result.kind = "tokens"
            THEN /\ users' = users
                 /\ refreshTokens \subseteq refreshTokens'
                 /\ Cardinality(refreshTokens') = Cardinality(refreshTokens) + 1
                 /\ \E r \in refreshTokens' \ refreshTokens :
                      r.token = proc'[p].result.refreshToken
            ELSE TablesUnchanged]_vars
  /\ [](\A p \in Procs :
          ( /\ Completed(p, "refresh")
            /\ proc[p].after = "login" /\ ~proc[p].chained
            /\ proc[p].live /\ proc[p].peers = {} ) =>
            proc[p].result.kind = "tokens")

\* C14: a refresh call presenting a token string that, when the call starts,
\* has been consumed by a successful refresh, revoked by logout or by the
\* deletion of its user, or whose stored expiry has passed, fails with 401.
C14_TerminalStates ==
  \A p \in Procs :
    (Completed(p, "refresh") /\ proc[p].dead) => Unauthenticated(proc[p].result)

\* C15: when a refresh call returns a token pair, the record it consumed is
\* gone and the record it inserted is stored; when it returns a failure, no
\* record it inserted is stored and the returning step changes no table.
C15_AtomicRotation ==
  [][\A p \in Procs :
       Returns(p, "refresh") =>
         IF proc'[p].result.kind = "tokens"
         THEN /\ \A r \in refreshTokens' : r.id # proc'[p].stored.id
              /\ \E r \in refreshTokens' : r.id = proc'[p].minted
         ELSE /\ \A r \in refreshTokens' : r.id # proc'[p].minted
              /\ TablesUnchanged]_vars

\* C16: when refresh(RT) returns a pair (AT', RT'), no record with the string RT
\* is stored and a record with the string RT' of the same user is; and a
\* refresh(RT') that follows it with no other call in between or in flight,
\* RT' being stored and unexpired, returns a token pair, in whichever clock
\* second it is called.
C16_RotationChain ==
  /\ [][\A p \in Procs :
          (Returns(p, "refresh") /\ proc'[p].result.kind = "tokens") =>
            /\ \A r \in refreshTokens' : r.token # proc'[p].token
            /\ \E r \in refreshTokens' :
                 /\ r.token = proc'[p].result.refreshToken
                 /\ r.userId = proc'[p].stored.userId]_vars
  /\ [](\A p \in Procs :
          ( /\ Completed(p, "refresh")
            /\ proc[p].after = "refresh" /\ proc[p].chained
            /\ proc[p].live /\ proc[p].peers = {} ) =>
            proc[p].result.kind = "tokens")

C18_RefreshAcceptance ==
  [][\A p \in Procs :
       /\ Started(p, "refresh") =>
            IF proc'[p].token.key = jwtRefreshSecret /\ now < proc'[p].token.exp
            THEN proc'[p].pc = "rf_find"
            ELSE /\ proc'[p].pc = "done"
                 /\ Fails(proc'[p].result, 401, "Invalid refresh token")
                 /\ TablesUnchanged
       /\ (proc[p].pc = "rf_find" /\ proc'[p].pc # "rf_find") =>
            /\ proc'[p].pc = "rf_check"
            /\ IF \E r \in refreshTokens : r.token = proc[p].token
               THEN proc'[p].stored \in refreshTokens /\ proc'[p].stored.token = proc[p].token
               ELSE proc'[p].stored = NoRecord
       /\ (proc[p].pc = "rf_check" /\ proc'[p].pc # "rf_check") =>
            IF proc[p].stored # NoRecord /\ proc[p].stored.expiresAt >= now
            THEN proc'[p].pc = "gen_create"
            ELSE /\ proc'[p].pc = "done"
                 /\ Fails(proc'[p].result, 401, "Invalid refresh token")
                 /\ TablesUnchanged
       /\ (Returns(p, "refresh") /\ proc'[p].result.kind = "tokens") =>
            /\ proc[p].pc = "rf_delete"
            /\ proc'[p].token.key = jwtRefreshSecret
            /\ proc'[p].stored.token = proc'[p].token]_vars

\* a refresh rejected for the stored expiry alone: the token still verifies and
\* the expired record is still stored
C18_Witness ==
  \E p \in Procs :
    /\ Completed(p, "refresh")
    /\ Unauthenticated(proc[p].result)
    /\ proc[p].why = "not_stored"
    /\ proc[p].stored \in refreshTokens
    /\ proc[p].stored.expiresAt < now
    /\ verifyRefresh(proc[p].token, now) = ""

\* C19: every stored record belongs to the user its token string was signed
\* for, and the pair a refresh returns and the record it inserted carry the id
\* and email of the owner of the record found for the presented token, who is
\* the user the presented token was issued to.
C19_OwnershipPreserved ==
  /\ \A r \in refreshTokens :
       /\ r.token.userId = r.userId
       /\ \E u \in users : u.id = r.userId /\ u.email = r.token.email
  /\ \A p \in Procs :
       (Completed(p, "refresh") /\ proc[p].result.kind = "tokens") =>
         LET res == proc[p].result
             owner == proc[p].stored.userId
         IN
         /\ owner = proc[p].token.userId
         /\ res.accessToken.userId = owner /\ res.refreshToken.userId = owner
         /\ res.accessToken.email = proc[p].token.email
         /\ res.refreshToken.email = proc[p].token.email
         /\ \A r \in refreshTokens : r.id = proc[p].minted => r.userId = owner

\* a refresh has returned a pair while another user and a session of that user exist
C19_Witness ==
  \E p \in Procs :
    /\ Completed(p, "refresh")
    /\ proc[p].result.kind = "tokens"
    /\ \E r \in refreshTokens : r.id = proc[p].minted
    /\ \E u \in users, o \in refreshTokens :
         /\ u.id # proc[p].result.refreshToken.userId
         /\ u.email # proc[p].result.refreshToken.email
         /\ o.userId = u.id

\* C20: in the step in which register, login or refresh returns a token pair,
\* a record with the returned refresh token string, owned by the user of the
\* pair, is stored.
C20_IssuedTokensBacked ==
  [][\A p \in Procs :
       ( /\ Returns(p, "register") \/ Returns(p, "login") \/ Returns(p, "refresh")
         /\ proc'[p].result.kind = "tokens" ) =>
         \E r \in refreshTokens' :
           /\ r.token = proc'[p].result.refreshToken
           /\ r.userId = proc'[p].result.refreshToken.userId]_vars
====
